---- MODULE Spec2Model ----
(***************************************************************************)
(* Fleet maintenance add-in: the record store (DataStore, data.js), the    *)
(* UI controller (app, data.js) and the Geotab integration layer           *)
(* (GeotabIntegration, geotab.js), as a state machine.                     *)
(*                                                                         *)
(* Conventions                                                             *)
(*  - a JS string that the code builds or takes apart (ids, counters,      *)
(*    display numbers) is a sequence of one-character strings;             *)
(*  - an optional value (null / undefined / absent slot) is a sequence of  *)
(*    length 0 or 1;                                                       *)
(*  - a reminder object carries its identity in the field ref: two holders *)
(*    of the same ref hold the same JS object, and an in-place write       *)
(*    reaches every holder.                                                *)
(***************************************************************************)
EXTENDS Integers, Sequences, FiniteSets, TLC

VARIABLES
  _reminders,             \* DataStore._reminders
  _workOrders,            \* DataStore._workOrders
  _woCounter,             \* DataStore._woCounter
  _rCounter,              \* DataStore._rCounter
  localStorage,           \* the four persisted slots
  DEFAULT_REMINDERS,      \* the seed objects (shared with the store by init)
  _pendingNotifReminder,  \* app._pendingNotifReminder
  held,                   \* a caller's variable: the array a getReminders() call returned
  _vehicles,              \* GeotabIntegration._vehicles: the names of the loaded devices
  _pollTimer,             \* GeotabIntegration._pollTimer: <<>> is null, <<n>> the id setInterval returned
  armed,                  \* the browser's armed interval timers that call _pollOdometers
  pc,                     \* where GeotabIntegration.init() stands
  inflight,               \* the polling cycles that await their fetches (Promise.all)
  cycles,                 \* history: polling cycles started, destroy() called, the cycle of each written reading
  last,                   \* history: the operation of the last step
  shown,                  \* history: ids handed to showNotification by the trigger check
  streak,                 \* history: trigger checks in a row
  everR,                  \* history: reminder ids that were ever in the store
  issuedWO,               \* history: work-order ids issued by addWorkOrder
  count,                  \* history: bounded operations done so far
  input                   \* what the user types into the reminder form

vars == <<_reminders, _workOrders, _woCounter, _rCounter, localStorage,
          DEFAULT_REMINDERS, _pendingNotifReminder, held, _vehicles, _pollTimer, armed, pc,
          inflight, cycles, last, shown, streak, everR, issuedWO, count, input>>

-----------------------------------------------------------------------------
(* Bounds of the model                                                     *)

MaxChecks == 3          \* trigger checks in a row
MaxAdds == 1            \* reminders created through the form
MaxEdits == 1           \* reminders edited through the form
MaxDeletes == 2         \* reminders deleted
MaxIdAdds == 3          \* reminders created in the identifier specification
MaxWODeletes == 1       \* work orders deleted
MaxWO == 2              \* work orders created
MaxVal == 2             \* form values of the evaluator specification
MaxStatusChecks == 1    \* trigger checks in a row, and notifications raised, in the status specification
MaxCycles == 4          \* polling cycles started in the concurrency specification
MaxNotified == 2        \* notifications raised in the notified-flag specification

-----------------------------------------------------------------------------
(* Strings                                                                 *)

DigitChar == <<"0", "1", "2", "3", "4", "5", "6", "7", "8", "9">>

RECURSIVE String(_)
\* String(n) of a non-negative integer
String(n) ==
  IF n < 10 THEN <<DigitChar[n + 1]>>
  ELSE String(n \div 10) \o <<DigitChar[(n % 10) + 1]>>

RECURSIVE padStart(_, _, _)
padStart(s, len, ch) == IF Len(s) >= len THEN s ELSE padStart(<<ch>> \o s, len, ch)

DigitVal(c) == (CHOOSE i \in 1..10 : DigitChar[i] = c) - 1

RECURSIVE parseInt(_)
\* parseInt of a string of decimal digits
parseInt(s) ==
  IF Len(s) = 1 THEN DigitVal(s[1])
  ELSE 10 * parseInt(SubSeq(s, 1, Len(s) - 1)) + DigitVal(s[Len(s)])

RECURSIVE toLocaleString(_)
\* n.toLocaleString() of a non-negative integer (en-US grouping)
toLocaleString(n) ==
  IF n < 1000 THEN String(n)
  ELSE toLocaleString(n \div 1000) \o <<",">> \o padStart(String(n % 1000), 3, "0")

-----------------------------------------------------------------------------
(* Seed data                                                               *)

Rem(ref, id, vehicle, type, status, current, target, warn, priority) ==
  [ref |-> ref, id |-> id, vehicle |-> vehicle, vehicles |-> <<>>, type |-> type,
   status |-> status, current |-> current, target |-> target, warn |-> warn,
   priority |-> priority, notified |-> FALSE]

SEED_REMINDERS ==
  << Rem(1, <<"R","0","0","1">>, "TRK-041", "Odometer", "overdue",   84312, 84000, 500,  "High"),
     Rem(2, <<"R","0","0","2">>, "VAN-012", "Interval", "due-soon",  44850, 45000, 500,  "Medium"),
     Rem(3, <<"R","0","0","3">>, "FLT-088", "Odometer", "due-soon",  22800, 23000, 500,  "Low"),
     Rem(4, <<"R","0","0","4">>, "TRK-022", "Date",     "scheduled", 61200, 65000, 1000, "High"),
     Rem(5, <<"R","0","0","5">>, "SED-055", "Interval", "scheduled", 38100, 40000, 500,  "Low"),
     Rem(6, <<"R","0","0","6">>, "TRK-041", "Odometer", "overdue",   84312, 80000, 2000, "High") >>

WO(id, vehicle, status, odo, cost, date, reminderId) ==
  [id |-> id, vehicle |-> vehicle, status |-> status, odo |-> odo, cost |-> cost,
   date |-> date, completionDate |-> <<>>, reminderId |-> reminderId]

DEFAULT_WORK_ORDERS ==
  << WO(<<"W","O","-","2","0","2","3">>, "VAN-012", "In Progress", <<"4","4",",","2","0","0">>, <<280>>, <<"2","0","2","6","-","0","2","-","2","0">>, <<>>),
     WO(<<"W","O","-","2","0","2","2">>, "FLT-088", "Completed",   <<"2","2",",","4","0","0">>, <<320>>, <<"2","0","2","6","-","0","2","-","1","0">>, <<>>),
     WO(<<"W","O","-","2","0","2","1">>, "TRK-022", "Open",        <<"6","1",",","0","0","0">>, <<>>,    <<"2","0","2","6","-","0","2","-","1","8">>, <<>>) >>

WO_COUNTER_DEFAULT == 2024
R_COUNTER_DEFAULT == 7

KNOWN_VEHICLES == {"TRK-041", "VAN-012", "FLT-088", "TRK-022", "SED-055", "TRK-099", "VAN-031"}

\* window.app: the page publishes the UI controller to the integration layer
window_app == TRUE

-----------------------------------------------------------------------------
(* Object identity                                                         *)

RefsOf(seq) == {seq[i].ref : i \in DOMAIN seq}

FreshRef(used) == CHOOSE n \in 1..(Cardinality(used) + 1) :
                    /\ n \notin used
                    /\ \A m \in 1..(Cardinality(used) + 1) : m \notin used => n <= m

RECURSIVE FreshRefs(_, _)
\* k new object identities, in order
FreshRefs(used, k) ==
  IF k = 0 THEN <<>>
  ELSE LET n == FreshRef(used) IN <<n>> \o FreshRefs(used \cup {n}, k - 1)

Without(seq, idx) == SubSeq(seq, 1, idx - 1) \o SubSeq(seq, idx + 1, Len(seq))

\* findIndex(x => x.id === id): the first index, 0 for -1
findIndex(seq, id) ==
  IF \E i \in DOMAIN seq : seq[i].id = id
  THEN CHOOSE i \in DOMAIN seq : seq[i].id = id /\ \A j \in 1..(i - 1) : seq[j].id # id
  ELSE 0

-----------------------------------------------------------------------------
(* DataStore.  An operation maps a world s to the world after the call:    *)
(*   s.r, s.w, s.wc, s.rc   the store's collections and counters           *)
(*   s.ls                   localStorage                                   *)
(*   s.defs                 DEFAULT_REMINDERS                              *)
(*   s.pend                 app._pendingNotifReminder                      *)
(*   s.held                 the array a caller got from getReminders()     *)
(* f is the number of setItem calls of _persist that succeed before one    *)
(* throws (4: none throws).                                                *)

World == [r |-> _reminders, w |-> _workOrders, wc |-> _woCounter, rc |-> _rCounter,
          ls |-> localStorage, defs |-> DEFAULT_REMINDERS, pend |-> _pendingNotifReminder,
          held |-> held]

\* the identities of the reminder objects that some holder still refers to
LiveRefs(s) == RefsOf(s.defs) \cup RefsOf(s.r) \cup RefsOf(s.pend) \cup RefsOf(s.held)

StripRef(seq) == [i \in DOMAIN seq |-> [seq[i] EXCEPT !.ref = 0]]

\* JSON.stringify of the reminder collection: the field values, no identity
stringifyReminders(seq) == StripRef(seq)

\* JSON.parse of a reminder slot: new objects
parseReminders(json, used) ==
  LET refs == FreshRefs(used, Len(json))
  IN  [i \in DOMAIN json |-> [json[i] EXCEPT !.ref = refs[i]]]

\* the save writes the two collections and not the counters
_persist_collectionsOnly(s, f) ==
  [s EXCEPT !.ls =
    [REMINDERS   |-> IF f >= 1 THEN <<stringifyReminders(s.r)>> ELSE s.ls.REMINDERS,
     WORK_ORDERS |-> IF f >= 2 THEN <<s.w>> ELSE s.ls.WORK_ORDERS,
     WO_COUNTER  |-> s.ls.WO_COUNTER,
     R_COUNTER   |-> s.ls.R_COUNTER]]

_persist(s, f) ==
  [s EXCEPT !.ls =
    [REMINDERS   |-> IF f >= 1 THEN <<stringifyReminders(s.r)>> ELSE s.ls.REMINDERS,
     WORK_ORDERS |-> IF f >= 2 THEN <<s.w>> ELSE s.ls.WORK_ORDERS,
     WO_COUNTER  |-> IF f >= 3 THEN <<String(s.wc)>> ELSE s.ls.WO_COUNTER,
     R_COUNTER   |-> IF f >= 4 THEN <<String(s.rc)>> ELSE s.ls.R_COUNTER]]

\* DataStore.init(); readable = FALSE: localStorage.getItem throws, or the
\* JSON.parse of a collection slot does (the catch branch)
init(s, readable) ==
  IF readable
  THEN [s EXCEPT
         !.r  = IF s.ls.REMINDERS # <<>>
                THEN parseReminders(s.ls.REMINDERS[1], LiveRefs([s EXCEPT !.r = <<>>]))
                ELSE s.defs,
         !.w  = IF s.ls.WORK_ORDERS # <<>> THEN s.ls.WORK_ORDERS[1] ELSE DEFAULT_WORK_ORDERS,
         !.wc = IF s.ls.WO_COUNTER # <<>> THEN parseInt(s.ls.WO_COUNTER[1]) ELSE WO_COUNTER_DEFAULT,
         !.rc = IF s.ls.R_COUNTER # <<>> THEN parseInt(s.ls.R_COUNTER[1]) ELSE R_COUNTER_DEFAULT]
  ELSE [s EXCEPT !.r = s.defs, !.w = DEFAULT_WORK_ORDERS]

\* [...this._reminders]: a new array of the same objects
getReminders(s) == s.r

\* entity[k] = v by the holder of a returned array, on its element i: a write to
\* the object, which every holder of the object sees and which is not saved
setReturnedField(s, i, k, v) ==
  LET ref == s.held[i].ref
      write(seq) == [j \in DOMAIN seq |->
                      IF seq[j].ref = ref THEN [seq[j] EXCEPT ![k] = v] ELSE seq[j]]
  IN  [s EXCEPT !.r = write(s.r), !.defs = write(s.defs), !.pend = write(s.pend),
                !.held = write(s.held)]

ReminderId(counter) == <<"R">> \o padStart(String(counter), 3, "0")

\* the id taken from the size of the collection
addReminderResult_byLength(s, data) ==
  [data EXCEPT !.id = ReminderId(Len(s.r) + 1),
               !.ref = FreshRef(LiveRefs(s))]

\* the entity addReminder stores and returns
addReminderResult(s, data) ==
  [data EXCEPT !.id = ReminderId(s.rc),
               !.ref = FreshRef(LiveRefs(s))]

addReminder(s, data, f) ==
  _persist([s EXCEPT !.rc = s.rc + 1, !.r = <<addReminderResult(s, data)>> \o s.r], f)

\* { ...old, ...data }: the fields of data written over a copy of old
Merge(old, data, ref) ==
  [k \in DOMAIN old |-> IF k = "ref" THEN ref
                        ELSE IF k \in DOMAIN data THEN data[k] ELSE old[k]]

updateReminder(s, id, data, f) ==
  LET idx == findIndex(s.r, id)
  IN  IF idx = 0 THEN s
      ELSE LET ref == FreshRef(LiveRefs([s EXCEPT !.r = Without(s.r, idx)]))
           IN  _persist([s EXCEPT !.r[idx] = Merge(s.r[idx], data, ref)], f)

\* what updateReminder returns: null (<<>>) or the stored entity
updateReminderResult(s, id, data) ==
  LET idx == findIndex(s.r, id)
  IN  IF idx = 0 THEN <<>> ELSE <<updateReminder(s, id, data, 4).r[idx]>>

\* the work orders made from the reminder go with it
deleteReminder_cascade(s, id, f) ==
  LET idx == findIndex(s.r, id)
  IN  IF idx = 0 THEN s
      ELSE _persist([s EXCEPT !.r = Without(s.r, idx),
                              !.w = SelectSeq(s.w, LAMBDA w : w.reminderId # id)], f)

deleteReminder(s, id, f) ==
  LET idx == findIndex(s.r, id)
  IN  IF idx = 0 THEN s ELSE _persist([s EXCEPT !.r = Without(s.r, idx)], f)

\* what deleteReminder returns
deleteReminderResult(s, id) == findIndex(s.r, id) # 0

\* the rule with a strict first comparison
odometerStatus_strict(odometer, target, warn) ==
  IF odometer > target THEN "overdue"
  ELSE IF target - odometer <= warn THEN "due-soon"
  ELSE "scheduled"

\* the status rule of updateOdometer
odometerStatus(odometer, target, warn) ==
  IF odometer >= target THEN "overdue"
  ELSE IF target - odometer <= warn THEN "due-soon"
  ELSE "scheduled"

\* a reminder is matched whatever its type
odometerMatches_anyType(r, vehicleId) == r.vehicle = vehicleId

\* a reminder is matched through any vehicle of its list
odometerMatches_anyVehicle(r, vehicleId) ==
  /\ IF r.vehicles # <<>> THEN vehicleId \in {r.vehicles[i] : i \in DOMAIN r.vehicles}
     ELSE r.vehicle = vehicleId
  /\ r.type # "Date"

\* the reminders updateOdometer writes to
odometerMatches(r, vehicleId) == r.vehicle = vehicleId /\ r.type # "Date"

updateOdometerChanged(s, vehicleId) ==
  \E i \in DOMAIN s.r : odometerMatches(s.r[i], vehicleId)

\* the call also re-arms the notification of a reminder that is no longer overdue
updateOdometer_rearm(s, vehicleId, odometer, f) ==
  LET hit == {s.r[i].ref : i \in {j \in DOMAIN s.r : odometerMatches(s.r[j], vehicleId)}}
      write(seq) == [i \in DOMAIN seq |->
                      IF seq[i].ref \in hit
                      THEN [seq[i] EXCEPT !.current = odometer,
                                          !.status = odometerStatus(odometer, seq[i].target, seq[i].warn),
                                          !.notified = seq[i].notified /\ odometer >= seq[i].target]
                      ELSE seq[i]]
      t == [s EXCEPT !.r = write(s.r), !.defs = write(s.defs), !.pend = write(s.pend),
                     !.held = write(s.held)]
  IN  IF hit # {} THEN _persist(t, f) ELSE t

\* the reminders the call matched are moved to the front of the collection
updateOdometer_front(s, vehicleId, odometer, f) ==
  LET hit == {s.r[i].ref : i \in {j \in DOMAIN s.r : odometerMatches(s.r[j], vehicleId)}}
      write(seq) == [i \in DOMAIN seq |->
                      IF seq[i].ref \in hit
                      THEN [seq[i] EXCEPT !.current = odometer,
                                          !.status = odometerStatus(odometer, seq[i].target, seq[i].warn)]
                      ELSE seq[i]]
      front(seq) == SelectSeq(seq, LAMBDA r : r.ref \in hit)
                      \o SelectSeq(seq, LAMBDA r : r.ref \notin hit)
      t == [s EXCEPT !.r = front(write(s.r)), !.defs = write(s.defs), !.pend = write(s.pend),
                     !.held = write(s.held)]
  IN  IF hit # {} THEN _persist(t, f) ELSE t

updateOdometer(s, vehicleId, odometer, f) ==
  LET hit == {s.r[i].ref : i \in {j \in DOMAIN s.r : odometerMatches(s.r[j], vehicleId)}}
      write(seq) == [i \in DOMAIN seq |->
                      IF seq[i].ref \in hit
                      THEN [seq[i] EXCEPT !.current = odometer,
                                          !.status = odometerStatus(odometer, seq[i].target, seq[i].warn)]
                      ELSE seq[i]]
      t == [s EXCEPT !.r = write(s.r), !.defs = write(s.defs), !.pend = write(s.pend),
                     !.held = write(s.held)]
  IN  IF hit # {} THEN _persist(t, f) ELSE t

WorkOrderId(counter) == <<"W", "O", "-">> \o String(counter)

addWorkOrderResult(s, data) == [data EXCEPT !.id = WorkOrderId(s.wc + 1)]

addWorkOrder(s, data, f) ==
  _persist([s EXCEPT !.wc = s.wc + 1, !.w = <<addWorkOrderResult(s, data)>> \o s.w], f)

\* { ...old, ...data } of a work order
MergeWO(old, data) == [k \in DOMAIN old |-> IF k \in DOMAIN data THEN data[k] ELSE old[k]]

\* the entity is replaced only when the save went through
updateWorkOrder_saveFirst(s, id, data, f) ==
  LET idx == findIndex(s.w, id)
  IN  IF idx = 0 THEN s
      ELSE IF f < 4 THEN _persist(s, f)
      ELSE _persist([s EXCEPT !.w[idx] = MergeWO(s.w[idx], data)], f)

updateWorkOrder(s, id, data, f) ==
  LET idx == findIndex(s.w, id)
  IN  IF idx = 0 THEN s ELSE _persist([s EXCEPT !.w[idx] = MergeWO(s.w[idx], data)], f)

\* what updateWorkOrder returns: null (<<>>) or the stored entity
updateWorkOrderResult(s, id, data) ==
  LET idx == findIndex(s.w, id)
  IN  IF idx = 0 THEN <<>> ELSE <<updateWorkOrder(s, id, data, 4).w[idx]>>

\* the save is made on a miss as well
deleteWorkOrder_savesOnMiss(s, id, f) ==
  LET idx == findIndex(s.w, id)
  IN  _persist(IF idx = 0 THEN s ELSE [s EXCEPT !.w = Without(s.w, idx)], f)

deleteWorkOrder(s, id, f) ==
  LET idx == findIndex(s.w, id)
  IN  IF idx = 0 THEN s ELSE _persist([s EXCEPT !.w = Without(s.w, idx)], f)

\* what deleteWorkOrder returns
deleteWorkOrderResult(s, id) == findIndex(s.w, id) # 0

startsWith(str, prefix) ==
  Len(str) >= Len(prefix) /\ SubSeq(str, 1, Len(prefix)) = prefix

\* `${now.getFullYear()}-${String(now.getMonth() + 1).padStart(2, '0')}`
thisMonth(now) == String(now[1]) \o <<"-">> \o padStart(String(now[2]), 2, "0")

RECURSIVE spendOf(_)
\* reduce((sum, w) => sum + (w.cost || 0), 0)
spendOf(seq) ==
  IF seq = <<>> THEN 0
  ELSE spendOf(SubSeq(seq, 1, Len(seq) - 1))
       + (IF seq[Len(seq)].cost = <<>> THEN 0 ELSE seq[Len(seq)].cost[1])

\* the month bucket taken from the completion date
getWOStats_byCompletionDate(s, now) ==
  LET mtd == SelectSeq(s.w, LAMBDA w : startsWith(w.completionDate, thisMonth(now)))
  IN  [open       |-> Len(SelectSeq(s.w, LAMBDA w : w.status = "Open")),
       inProgress |-> Len(SelectSeq(s.w, LAMBDA w : w.status = "In Progress")),
       completed  |-> Len(SelectSeq(mtd, LAMBDA w : w.status = "Completed")),
       spend      |-> spendOf(mtd)]

getWOStats(s, now) ==
  LET mtd == SelectSeq(s.w, LAMBDA w : w.date # <<>> /\ startsWith(w.date, thisMonth(now)))
  IN  [open       |-> Len(SelectSeq(s.w, LAMBDA w : w.status = "Open")),
       inProgress |-> Len(SelectSeq(s.w, LAMBDA w : w.status = "In Progress")),
       completed  |-> Len(SelectSeq(mtd, LAMBDA w : w.status = "Completed")),
       spend      |-> spendOf(mtd)]

getUniqueVehicles(s) == {s.r[i].vehicle : i \in DOMAIN s.r}

-----------------------------------------------------------------------------
(* app: notification banner, accept dialog, reminder form                  *)

TODAY == <<2026, 3, 5>>   \* new Date(), as a calendar date

\* new Date().toISOString().split('T')[0]
isoDate(now) ==
  String(now[1]) \o <<"-">> \o padStart(String(now[2]), 2, "0")
                 \o <<"-">> \o padStart(String(now[3]), 2, "0")

showNotification(s, reminder) == [s EXCEPT !.pend = <<reminder>>]

dismissNotif(s) == [s EXCEPT !.pend = <<>>]

\* openAcceptModal: TRUE when the dialog is put on screen
openAcceptModalOpens(s) == dismissNotif(s).pend # <<>>

openAcceptModal(s) == dismissNotif(s)

\* the first vehicle only
vehiclesOf_first(r) == <<r.vehicle>>

\* Array.isArray(r.vehicles) ? r.vehicles : [r.vehicle]
vehiclesOf(r) == IF r.vehicles # <<>> THEN r.vehicles ELSE <<r.vehicle>>

acceptData(r, vehicleId) ==
  [id |-> <<>>, vehicle |-> vehicleId, status |-> "Open", odo |-> toLocaleString(r.current),
   cost |-> <<>>, date |-> isoDate(TODAY), completionDate |-> <<>>, reminderId |-> r.id]

RECURSIVE createAll(_, _, _, _)
\* vehicles.map(vehicleId => DataStore.addWorkOrder({...}))
createAll(s, r, vehicles, f) ==
  IF vehicles = <<>> THEN s
  ELSE createAll(addWorkOrder(s, acceptData(r, Head(vehicles)), f), r, Tail(vehicles), f)

\* the ids of the work orders acceptAndCreateWO creates, in creation order
acceptCreated(s) ==
  IF s.pend = <<>> THEN <<>>
  ELSE [i \in 1..Len(vehiclesOf(s.pend[1])) |-> WorkOrderId(s.wc + i)]

acceptAndCreateWO(s, f) ==
  IF s.pend = <<>> THEN s
  ELSE [createAll(s, s.pend[1], vehiclesOf(s.pend[1]), f) EXCEPT !.pend = <<>>]

\* parseFloat(field) || null
orNull(field) == IF field = <<>> \/ field[1] = 0 THEN <<>> ELSE field

\* the dialog's fields are prefilled from the work order; costField is what the
\* user leaves in the Total Cost input, the completion date input is left empty
_saveAndCompleteWO(s, woId, costField, now, f) ==
  updateWorkOrder(s, woId,
    [status |-> "Completed", cost |-> orNull(costField), completionDate |-> isoDate(now)], f)

_updateWO(s, woId, status, f) == updateWorkOrder(s, woId, [status |-> status], f)

\* the inputs of the dialog are prefilled from the work order; costField is what
\* the user leaves in the Total Cost input, the other inputs are left as they are
_saveWOEdits(s, woId, costField, f) ==
  LET idx == findIndex(s.w, woId)
  IN  IF idx = 0 THEN s
      ELSE updateWorkOrder(s, woId,
             [odo |-> s.w[idx].odo, cost |-> orNull(costField),
              completionDate |-> s.w[idx].completionDate], f)

\* every button for every work order
openWOModal_allButtons(s, woId) ==
  IF findIndex(s.w, woId) = 0 THEN {}
  ELSE {"_updateWO", "_saveAndCompleteWO", "_saveWOEdits"}

\* openWOModal(woId): the handlers of the buttons the dialog's footer offers
openWOModal(s, woId) ==
  LET idx == findIndex(s.w, woId)
  IN  IF idx = 0 THEN {}
      ELSE IF s.w[idx].status # "Completed" THEN {"_updateWO", "_saveAndCompleteWO"}
      ELSE {"_saveWOEdits"}

\* the trigger options of the form and the type each title maps to (typeMap)
TriggerTypes == {"Odometer", "Interval", "Date", "Engine Hours"}

\* parseInt(field) || dflt, for a field that is absent / empty (<<>>) or holds a number
orDefault(field, dflt) == IF field = <<>> \/ field[1] = 0 THEN dflt ELSE field[1]

\* the inputs of the trigger fields that the form shows for a type
fieldsFor(type, form) ==
  [target  |-> IF type = "Date" THEN <<>> ELSE form.target,
   warn    |-> form.warn,
   current |-> IF type \in {"Odometer", "Interval"} THEN form.current ELSE <<>>]

\* the form's rule with a strict first comparison
formStatus_strict(triggerType, current, target, warn) ==
  IF triggerType # "Date"
  THEN IF current > target THEN "overdue"
       ELSE IF target - current <= warn THEN "due-soon"
       ELSE "scheduled"
  ELSE "scheduled"

\* the status rule of saveReminder
formStatus(triggerType, current, target, warn) ==
  IF triggerType # "Date"
  THEN IF current >= target THEN "overdue"
       ELSE IF target - current <= warn THEN "due-soon"
       ELSE "scheduled"
  ELSE "scheduled"

\* the object saveReminder hands to the store
formData(_pickerSelected, form) ==
  LET fl      == fieldsFor(form.type, form)
      target  == orDefault(fl.target, 0)
      warn    == orDefault(fl.warn, 500)
      current == orDefault(fl.current, 0)
  IN  [vehicles |-> _pickerSelected, vehicle |-> _pickerSelected[1], type |-> form.type,
       priority |-> form.priority, target |-> target, warn |-> warn, current |-> current,
       status |-> formStatus(form.type, current, target, warn)]

\* a new reminder has the fields of data and no notified field
newReminder(data) ==
  [ref |-> 0, id |-> <<>>, vehicle |-> data.vehicle, vehicles |-> data.vehicles,
   type |-> data.type, status |-> data.status, current |-> data.current,
   target |-> data.target, warn |-> data.warn, priority |-> data.priority,
   notified |-> FALSE]

saveReminder(s, _pickerSelected, form, _editingReminderId, f) ==
  IF _pickerSelected = <<>> THEN s
  ELSE IF _editingReminderId # <<>>
       THEN updateReminder(s, _editingReminderId[1], formData(_pickerSelected, form), f)
       ELSE addReminder(s, newReminder(formData(_pickerSelected, form)), f)

-----------------------------------------------------------------------------
(* GeotabIntegration: trigger check and odometer polling                   *)

priorityOrder(p) == CASE p = "High" -> 0 [] p = "Medium" -> 1 [] p = "Low" -> 2

RECURSIVE insertSorted(_, _)
\* x goes behind every element that does not compare greater (stable)
insertSorted(sorted, x) ==
  IF sorted = <<>> THEN <<x>>
  ELSE IF priorityOrder(Head(sorted).priority) - priorityOrder(x.priority) <= 0
       THEN <<Head(sorted)>> \o insertSorted(Tail(sorted), x)
       ELSE <<x>> \o sorted

\* the filtered reminders left in collection order
sortByPriority_unsorted(seq) == seq

RECURSIVE sortByPriority(_)
\* Array.prototype.sort with the priority comparator (a stable sort)
sortByPriority(seq) ==
  IF seq = <<>> THEN <<>>
  ELSE insertSorted(sortByPriority(SubSeq(seq, 1, Len(seq) - 1)), seq[Len(seq)])

\* the filter without the notified flag
isTriggered_ignoresNotified(r) == r.status = "overdue"

isTriggered(r) == r.status = "overdue" /\ ~r.notified

triggered(s) == sortByPriority(SelectSeq(getReminders(s), isTriggered))

\* TRUE when the trigger check raises a notification
raises(s) == triggered(s) # <<>> /\ window_app

\* the banner is shown and the reminder is left unmarked
_checkForTriggeredReminders_noMark(s, f) ==
  IF triggered(s) # <<>> /\ window_app THEN showNotification(s, triggered(s)[1]) ELSE s

_checkForTriggeredReminders(s, f) ==
  IF raises(s)
  THEN LET r == triggered(s)[1]
       IN  updateReminder(showNotification(s, r), r.id, [notified |-> TRUE], f)
  ELSE s

RECURSIVE applyReadings(_, _, _, _)
\* readings.forEach: a reading of <<>> is null
applyReadings(s, devices, readings, f) ==
  IF devices = <<>> THEN s
  ELSE LET v == Head(devices)
           t == IF readings[v] # <<>> THEN updateOdometer(s, v, readings[v][1], f) ELSE s
       IN  applyReadings(t, Tail(devices), readings, f)

\* _vehicles.filter(v => trackedNames.includes(v.name)); devices: _vehicles
trackedDevices(s, devices) ==
  SelectSeq(devices, LAMBDA v : v \in getUniqueVehicles(s))

\* TRUE when the polling cycle reaches its trigger check
pollChecks(s, devices) == devices # <<>> /\ trackedDevices(s, devices) # <<>>

\* .catch(() => ({ vehicleName, odometer: null })): a rejected fetch reads as null
caught(readings, failed) ==
  [v \in DOMAIN readings |-> IF v \in failed THEN <<>> ELSE readings[v]]

\* the first copy; readings are the results after the catch
_pollOdometers(s, devices, readings, f) ==
  IF ~pollChecks(s, devices) THEN s
  ELSE _checkForTriggeredReminders(
         applyReadings(s, trackedDevices(s, devices), readings, f), f)

\* TRUE when a polling cycle of the second copy reaches its trigger check:
\* Promise.all rejects when the fetch of a tracked device rejects
pollChecks2(s, devices, failed) ==
  /\ devices # <<>>
  /\ \A i \in DOMAIN trackedDevices(s, devices) : trackedDevices(s, devices)[i] \notin failed

\* the second copy
_pollOdometers2(s, devices, readings, failed, f) ==
  IF ~pollChecks2(s, devices, failed) THEN s
  ELSE _checkForTriggeredReminders(
         applyReadings(s, trackedDevices(s, devices), readings, f), f)

-----------------------------------------------------------------------------------------------------------------------------------------------------
(* Inputs                                                                  *)

\* GeotabIntegration._vehicles: the device names _loadVehicles found, sorted
LoadedVehicles == <<"TRK-041", "VAN-012">>

\* what _loadVehicles can leave in _vehicles: two tracked devices, a device
\* without reminders, no device
PollVehicleLists == { LoadedVehicles, <<"VAN-031">>, <<>> }

\* the devices whose fetch rejects in a polling cycle
PollFailures == { {}, {"VAN-012"} }

\* calls of updateOdometer (vehicle, miles): R001 due-soon / overdue, R002 overdue
OdoInputs == { <<"TRK-041", 83900>>, <<"TRK-041", 84000>>, <<"VAN-012", 84000>> }

\* the results of the fetches of one polling cycle: a reading or null per vehicle
PollReadings == [ {LoadedVehicles[i] : i \in DOMAIN LoadedVehicles} -> {<<>>, <<84000>>} ]

Form(type, priority, target, warn, current) ==
  [type |-> type, priority |-> priority, target |-> target, warn |-> warn, current |-> current]

\* the reminder form of the lifecycle specifications: two vehicles, overdue, Low
LifecycleInput ==
  [pick |-> <<"TRK-041", "TRK-099">>, form |-> Form("Odometer", "Low", <<84000>>, <<>>, <<84000>>)]

\* a form field of the form specification: empty or a small number
SmallField == {<<>>} \cup {<<n>> : n \in 0..MaxVal}

\* the forms of the form specification, with the fields each type shows
EvalForms ==
  { Form(ty, "Medium", t, w, c) : ty \in {"Odometer", "Interval"},
                                  t \in SmallField, w \in SmallField, c \in SmallField }
  \cup { Form("Engine Hours", "Medium", t, w, <<>>) : t \in SmallField, w \in SmallField }
  \cup { Form("Date", "Medium", <<>>, w, <<>>) : w \in SmallField }

\* the forms of the status specification: every status of the rule, a type
\* without a current field, a Date reminder, an empty form
StatusForms ==
  { Form("Odometer", "Medium", <<MaxVal>>, <<1>>, c) : c \in SmallField }
  \cup { Form("Engine Hours", "Medium", <<MaxVal>>, w, <<>>) : w \in {<<>>, <<1>>} }
  \cup { Form("Date", "Medium", <<>>, <<>>, <<>>), Form("Interval", "High", <<>>, <<>>, <<>>) }

\* vehicle selections of the form specification (_pickerSelected)
Picks == { <<"TRK-099">>, <<"TRK-041", "TRK-099">> }

\* vehicles and reminders of the form specification
FormVehicles == {"TRK-041", "TRK-099"}
EditTargets == { <<"R","0","0","2">>, <<"R","0","0","7">> }

\* the status specification edits a seed reminder, deletes the first reminder
\* the form creates, and reports an odometer below, inside and past the
\* due-soon range of the form's target
StatusEdits == { <<"R","0","0","2">> }
StatusDeletes == { <<"R","0","0","7">> }
StatusOdometers == {0, MaxVal - 1, MaxVal}

\* the edit of the notified-flag specification: reminder R006 gets a target it
\* has not reached (the form shows no current for it: 0), status scheduled
NotifiedForm == Form("Odometer", "Low", <<84000>>, <<>>, <<>>)
NotifiedEdits == { <<"R","0","0","6">> }

\* a work order entered in the New Work Order dialog
ManualWO == [id |-> <<>>, vehicle |-> "TRK-041", status |-> "Open", odo |-> <<"0">>,
             cost |-> <<>>, date |-> isoDate(TODAY), completionDate |-> <<>>, reminderId |-> <<>>]

\* a work order made from reminder R001, as acceptAndCreateWO hands it to the store
LinkedWO == acceptData(SEED_REMINDERS[1], "TRK-041")

\* outcomes of _persist: the number of slot writes that succeed
PersistOutcomes == 0..4

\* what the user leaves in the Total Cost input of the work-order dialog
CostFields == { <<>>, <<0>>, <<150>> }

\* the moments at which the dashboard asks for the statistics
StatsClocks == { <<2026, 2, 25>>, TODAY, <<2026, 12, 1>> }

\* outcomes of _persist: every write goes through, the first write throws
SaveWorks == 4
SaveFails == 0

\* ids handed to the store's update and delete calls: one in the store, one not
StoreReminderIds == { <<"R","0","0","1">>, <<"R","0","0","9">> }
StoreWorkOrderIds == { <<"W","O","-","2","0","2","1">>, <<"W","O","-","9","9","9","9">> }

\* readings handed to updateOdometer by a caller: a tracked vehicle, an untracked one
StoreOdoInputs == { <<"TRK-041", 84312>>, <<"TRK-041", 83900>>, <<"TRK-099", 83900>> }

\* the data of the update calls: the trigger check's and _updateWO's
ReminderPatch == [notified |-> TRUE]
WorkOrderPatch == [status |-> "In Progress"]

\* the other reading of a pair of readings for two vehicles: a vehicle of a seed
\* reminder, the second vehicle of the form's reminder, the first vehicle
OtherReadings == { <<"VAN-012", 44000>>, <<"TRK-099", 90000>>, <<"TRK-041", 100>> }

-----------------------------------------------------------------------------
(* The state machine                                                       *)

Range(seq) == {seq[i] : i \in DOMAIN seq}

IdsOf(seq) == {seq[i].id : i \in DOMAIN seq}

Last(op, id, ids, k, v) ==
  [op |-> op, id |-> id, ids |-> ids, k |-> k, v |-> v, rep |-> 0, ret |-> <<>>, fetch |-> <<>>]

NoStreak == [calls |-> 0, raised |-> 0, n0 |-> 0]

\* the state after the page has loaded and DataStore.init() has run on an empty localStorage
InitStore ==
  /\ DEFAULT_REMINDERS = SEED_REMINDERS
  /\ localStorage = [REMINDERS |-> <<>>, WORK_ORDERS |-> <<>>, WO_COUNTER |-> <<>>, R_COUNTER |-> <<>>]
  /\ _pendingNotifReminder = <<>>
  /\ held = <<>>
  /\ LET s == init([r |-> <<>>, w |-> <<>>, wc |-> WO_COUNTER_DEFAULT, rc |-> R_COUNTER_DEFAULT,
                    ls |-> localStorage, defs |-> DEFAULT_REMINDERS, pend |-> <<>>,
                    held |-> <<>>], TRUE)
     IN  /\ _reminders = s.r
         /\ _workOrders = s.w
         /\ _woCounter = s.wc
         /\ _rCounter = s.rc
  /\ last = Last("init", <<>>, <<>>, 0, "")
  /\ shown = <<>>
  /\ streak = NoStreak
  /\ everR = IdsOf(SEED_REMINDERS)
  /\ issuedWO = {}
  /\ count = [edits |-> 0, deletes |-> 0]

\* no polling cycle has been started, destroy() has not been called
NoCycles == [started |-> 0, destroyed |-> FALSE, applied |-> [v \in Range(LoadedVehicles) |-> 0]]

\* GeotabIntegration.init(api) has run to its end: the interval timer is armed
PollingStarted ==
  /\ _pollTimer = <<1>>
  /\ armed = {1}
  /\ pc = "done"
  /\ inflight = {}
  /\ cycles = NoCycles

Init == InitStore /\ input = LifecycleInput /\ _vehicles = LoadedVehicles /\ PollingStarted

\* the concurrency specification: initialize() has called DataStore.init() and is
\* about to call GeotabIntegration.init()
InitCycles ==
  /\ InitStore
  /\ input = LifecycleInput
  /\ _vehicles = <<>>
  /\ _pollTimer = <<>>
  /\ armed = {}
  /\ pc = "start"
  /\ inflight = {}
  /\ cycles = NoCycles

\* the form specification: what the user types is drawn once
InitForm ==
  InitStore /\ input \in [pick : Picks, form : EvalForms] /\ _vehicles = LoadedVehicles /\ PollingStarted

\* the status specification: what the user types is drawn once
InitStatus ==
  /\ InitStore
  /\ input \in [pick : {LifecycleInput.pick}, form : StatusForms]
  /\ _vehicles = LoadedVehicles
  /\ PollingStarted

\* the polling specification: the devices that _loadVehicles found are drawn once
InitPoll == InitStore /\ input = LifecycleInput /\ _vehicles \in PollVehicleLists /\ PollingStarted

\* the number of triggered reminders, as the claims count them
OverdueUnnotified(seq) ==
  Cardinality({i \in DOMAIN seq : seq[i].status = "overdue" /\ seq[i].notified = FALSE})

\* the store and the app after a handler (the world t), and the history of the step
CommitStore(t, l) ==
  /\ _reminders' = t.r
  /\ _workOrders' = t.w
  /\ _woCounter' = t.wc
  /\ _rCounter' = t.rc
  /\ localStorage' = t.ls
  /\ DEFAULT_REMINDERS' = t.defs
  /\ _pendingNotifReminder' = t.pend
  /\ held' = t.held
  /\ last' = l
  /\ everR' = everR \cup IdsOf(t.r)
  /\ issuedWO' = IF l.op \in {"addWorkOrder", "acceptAndCreateWO"}
                 THEN issuedWO \cup Range(l.ids) ELSE issuedWO
  /\ input' = input

\* a handler of the store or the app: GeotabIntegration's state stays
Commit(t, l) ==
  /\ CommitStore(t, l)
  /\ UNCHANGED <<_vehicles, _pollTimer, armed, pc, inflight, cycles>>

UpdateOdometer(vehicleId, odometer, f) ==
  /\ Commit(updateOdometer(World, vehicleId, odometer, f),
            [Last("updateOdometer", <<>>, <<>>, odometer, vehicleId) EXCEPT
               !.rep = IF last.op = "updateOdometer" /\ last.v = vehicleId /\ last.k = odometer
                       THEN 1 ELSE 0,
               !.ret = <<updateOdometerChanged(World, vehicleId)>>])
  /\ streak' = NoStreak
  /\ UNCHANGED <<shown, count>>

CheckForTriggeredReminders(f) ==
  /\ Commit(_checkForTriggeredReminders(World, f),
            Last("checkTriggered", IF raises(World) THEN triggered(World)[1].id ELSE <<>>,
                 <<>>, IF raises(World) THEN 1 ELSE 0, ""))
  /\ shown' = IF raises(World) THEN Append(shown, triggered(World)[1].id) ELSE shown
  /\ streak' = [calls  |-> streak.calls + 1,
                raised |-> streak.raised + (IF raises(World) THEN 1 ELSE 0),
                n0     |-> IF streak.calls = 0 THEN OverdueUnnotified(_reminders)
                           ELSE streak.n0]
  /\ UNCHANGED count

\* one polling cycle of the first copy; failed: the devices whose fetch rejects
PollOdometers(readings, failed, f) ==
  LET s == World
      rd == caught(readings, failed)
      a == IF pollChecks(s, _vehicles)
           THEN applyReadings(s, trackedDevices(s, _vehicles), rd, f) ELSE s
      fires == pollChecks(s, _vehicles) /\ raises(a)
  IN  /\ Commit(_pollOdometers(s, _vehicles, rd, f),
                [Last("pollOdometers", IF fires THEN triggered(a)[1].id ELSE <<>>,
                      <<>>, IF fires THEN 1 ELSE 0, "") EXCEPT
                   !.fetch = <<[readings |-> readings, failed |-> failed, copy |-> 1]>>])
      /\ shown' = IF fires THEN Append(shown, triggered(a)[1].id) ELSE shown
      /\ streak' = NoStreak
      /\ UNCHANGED count

\* one polling cycle of the second copy
PollOdometers2(readings, failed, f) ==
  LET s == World
      a == IF pollChecks2(s, _vehicles, failed)
           THEN applyReadings(s, trackedDevices(s, _vehicles), readings, f) ELSE s
      fires == pollChecks2(s, _vehicles, failed) /\ raises(a)
  IN  /\ Commit(_pollOdometers2(s, _vehicles, readings, failed, f),
                [Last("pollOdometers", IF fires THEN triggered(a)[1].id ELSE <<>>,
                      <<>>, IF fires THEN 1 ELSE 0, "") EXCEPT
                   !.fetch = <<[readings |-> readings, failed |-> failed, copy |-> 2]>>])
      /\ shown' = IF fires THEN Append(shown, triggered(a)[1].id) ELSE shown
      /\ streak' = NoStreak
      /\ UNCHANGED count

\* openReminderModal() and saveReminder(): a new reminder
SaveNewReminder(_pickerSelected, form, f) ==
  /\ Commit(saveReminder(World, _pickerSelected, form, <<>>, f),
            Last("saveReminder", ReminderId(_rCounter), <<ReminderId(_rCounter)>>, 0, form.type))
  /\ streak' = NoStreak
  /\ UNCHANGED <<shown, count>>

\* openReminderModal(id) and saveReminder(): an edit of the reminder id
SaveEditedReminder(id, _pickerSelected, form, f) ==
  /\ id \in IdsOf(_reminders)
  /\ Commit(saveReminder(World, _pickerSelected, form, <<id>>, f),
            Last("saveReminder", id, <<>>, 1, form.type))
  /\ streak' = NoStreak
  /\ count' = [count EXCEPT !.edits = @ + 1]
  /\ UNCHANGED shown

\* app.deleteReminder(id), confirmed
DeleteReminder(id, f) ==
  /\ id \in IdsOf(_reminders)
  /\ Commit(deleteReminder(World, id, f), Last("deleteReminder", id, <<>>, 0, ""))
  /\ streak' = NoStreak
  /\ count' = [count EXCEPT !.deletes = @ + 1]
  /\ UNCHANGED shown

DismissNotif ==
  /\ _pendingNotifReminder # <<>>
  /\ Commit(dismissNotif(World), Last("dismissNotif", _pendingNotifReminder[1].id, <<>>, 0, ""))
  /\ streak' = NoStreak
  /\ UNCHANGED <<shown, count>>

\* the banner's Accept button
OpenAcceptModal ==
  /\ _pendingNotifReminder # <<>>
  /\ Commit(openAcceptModal(World),
            Last("openAcceptModal", _pendingNotifReminder[1].id, <<>>,
                 IF openAcceptModalOpens(World) THEN 1 ELSE 0, ""))
  /\ streak' = NoStreak
  /\ UNCHANGED <<shown, count>>

\* the accept dialog's confirm button
AcceptAndCreateWO(f) ==
  /\ Commit(acceptAndCreateWO(World, f),
            Last("acceptAndCreateWO",
                 IF _pendingNotifReminder # <<>> THEN _pendingNotifReminder[1].id ELSE <<>>,
                 acceptCreated(World), Len(acceptCreated(World)), ""))
  /\ streak' = NoStreak
  /\ UNCHANGED <<shown, count>>

\* _saveNewWO(): DataStore.addWorkOrder
AddWorkOrder(data, f) ==
  /\ Commit(addWorkOrder(World, data, f),
            Last("addWorkOrder", WorkOrderId(_woCounter + 1), <<WorkOrderId(_woCounter + 1)>>, f, ""))
  /\ streak' = NoStreak
  /\ UNCHANGED <<shown, count>>

DeleteWorkOrder(id, f) ==
  /\ id \in IdsOf(_workOrders)
  /\ Commit(deleteWorkOrder(World, id, f), Last("deleteWorkOrder", id, <<>>, f, ""))
  /\ streak' = NoStreak
  /\ count' = [count EXCEPT !.deletes = @ + 1]
  /\ UNCHANGED shown

\* the work-order dialog's Save & Mark Completed, shown for a work order that is
\* not completed
SaveAndCompleteWO(woId, costField, f) ==
  /\ "_saveAndCompleteWO" \in openWOModal(World, woId)
  /\ Commit(_saveAndCompleteWO(World, woId, costField, TODAY, f),
            Last("saveAndCompleteWO", woId, <<>>, f, ""))
  /\ streak' = NoStreak
  /\ UNCHANGED <<shown, count>>

\* the work-order dialog's Mark In Progress
UpdateWO(woId, f) ==
  /\ "_updateWO" \in openWOModal(World, woId)
  /\ Commit(_updateWO(World, woId, "In Progress", f), Last("updateWO", woId, <<>>, f, ""))
  /\ streak' = NoStreak
  /\ UNCHANGED <<shown, count>>

\* the work-order dialog's Save Changes, shown for a completed work order
SaveWOEdits(woId, costField, f) ==
  /\ "_saveWOEdits" \in openWOModal(World, woId)
  /\ Commit(_saveWOEdits(World, woId, costField, f), Last("saveWOEdits", woId, <<>>, f, ""))
  /\ streak' = NoStreak
  /\ UNCHANGED <<shown, count>>

\* DataStore.init() on the running store (initialize is called again)
StoreInit(readable) ==
  /\ Commit(init(World, readable), Last("init", <<>>, <<>>, IF readable THEN 1 ELSE 0, ""))
  /\ streak' = NoStreak
  /\ UNCHANGED <<shown, count>>

\* DataStore.updateReminder(id, data), for any id
StoreUpdateReminder(id, data, f) ==
  /\ Commit(updateReminder(World, id, data, f),
            [Last("updateReminder", id, <<>>, f, "") EXCEPT
               !.ret = updateReminderResult(World, id, data)])
  /\ streak' = NoStreak
  /\ UNCHANGED <<shown, count>>

\* DataStore.deleteReminder(id), for any id
StoreDeleteReminder(id, f) ==
  /\ Commit(deleteReminder(World, id, f),
            [Last("deleteReminder", id, <<>>, f, "") EXCEPT
               !.ret = <<deleteReminderResult(World, id)>>])
  /\ streak' = NoStreak
  /\ UNCHANGED <<shown, count>>

\* DataStore.updateWorkOrder(id, data), for any id
StoreUpdateWorkOrder(id, data, f) ==
  /\ Commit(updateWorkOrder(World, id, data, f),
            [Last("updateWorkOrder", id, <<>>, f, "") EXCEPT
               !.ret = updateWorkOrderResult(World, id, data)])
  /\ streak' = NoStreak
  /\ UNCHANGED <<shown, count>>

\* DataStore.deleteWorkOrder(id), for any id
StoreDeleteWorkOrder(id, f) ==
  /\ Commit(deleteWorkOrder(World, id, f),
            [Last("deleteWorkOrder", id, <<>>, f, "") EXCEPT
               !.ret = <<deleteWorkOrderResult(World, id)>>])
  /\ streak' = NoStreak
  /\ UNCHANGED <<shown, count>>

\* a caller keeps the result of DataStore.getReminders()
GetReminders ==
  /\ Commit([World EXCEPT !.held = getReminders(World)], Last("getReminders", <<>>, <<>>, 0, ""))
  /\ streak' = NoStreak
  /\ UNCHANGED <<shown, count>>

\* the caller writes a field of element i of the array it keeps
SetReturnedField(i, k, v) ==
  /\ i \in DOMAIN held
  /\ Commit(setReturnedField(World, i, k, v), Last("setReturnedField", held[i].id, <<>>, i, k))
  /\ streak' = NoStreak
  /\ UNCHANGED <<shown, count>>

\* telemetry, trigger check and banner, with a working durability backend
Next ==
  \/ \E in \in OdoInputs : UpdateOdometer(in[1], in[2], 4)
  \/ streak.calls < MaxChecks /\ CheckForTriggeredReminders(4)
  \/ \E rd \in PollReadings : PollOdometers(rd, {}, 4)
  \/ _rCounter < R_COUNTER_DEFAULT + MaxAdds /\ SaveNewReminder(input.pick, input.form, 4)
  \/ DismissNotif

Spec == Init /\ [][Next]_vars

\* polling, banner and conversion to work orders
NextAccept ==
  \/ \E rd \in PollReadings : PollOdometers(rd, {}, 4)
  \/ _rCounter < R_COUNTER_DEFAULT + MaxAdds /\ SaveNewReminder(input.pick, input.form, 4)
  \/ DismissNotif
  \/ OpenAcceptModal
  \/ Len(_workOrders) < Len(DEFAULT_WORK_ORDERS) + MaxWO /\ AcceptAndCreateWO(4)

SpecAccept == Init /\ [][NextAccept]_vars

\* the reminder form and the odometer, on what the user typed
NextForm ==
  \/ _rCounter < R_COUNTER_DEFAULT + MaxAdds /\ SaveNewReminder(input.pick, input.form, 4)
  \/ count.edits < MaxEdits /\ \E id \in EditTargets : SaveEditedReminder(id, input.pick, input.form, 4)
  \/ \E v \in FormVehicles, x \in 0..MaxVal : UpdateOdometer(v, x, 4)

SpecForm == InitForm /\ [][NextForm]_vars

\* reminders created and deleted
NextIds ==
  \/ _rCounter < R_COUNTER_DEFAULT + MaxIdAdds /\ SaveNewReminder(input.pick, input.form, 4)
  \/ count.deletes < MaxDeletes /\ \E id \in IdsOf(_reminders) : DeleteReminder(id, 4)

SpecIds == Init /\ [][NextIds]_vars

\* work orders over saves that may fail and reloads
NextDurable ==
  \/ /\ _woCounter < WO_COUNTER_DEFAULT + MaxWO
     /\ Len(_workOrders) < Len(DEFAULT_WORK_ORDERS) + MaxWO
     /\ \E f \in PersistOutcomes : AddWorkOrder(ManualWO, f)
  \/ /\ count.deletes < MaxWODeletes
     /\ \E id \in IdsOf(_workOrders), f \in PersistOutcomes : DeleteWorkOrder(id, f)
  \/ \E readable \in BOOLEAN : StoreInit(readable)

SpecDurable == Init /\ [][NextDurable]_vars

\* the calls of the store's interface, all with the same outcome of the save
StoreCalls(f) ==
  \/ \E id \in StoreReminderIds : StoreUpdateReminder(id, ReminderPatch, f)
  \/ \E id \in StoreReminderIds : StoreDeleteReminder(id, f)
  \/ \E id \in StoreWorkOrderIds : StoreUpdateWorkOrder(id, WorkOrderPatch, f)
  \/ \E id \in StoreWorkOrderIds : StoreDeleteWorkOrder(id, f)
  \/ _rCounter < R_COUNTER_DEFAULT + MaxAdds /\ SaveNewReminder(input.pick, input.form, f)
  \/ _woCounter < WO_COUNTER_DEFAULT + MaxWO /\ AddWorkOrder(LinkedWO, f)
  \/ \E in \in StoreOdoInputs : UpdateOdometer(in[1], in[2], f)

\* the store's interface with a working durability backend
NextStore == StoreCalls(SaveWorks)

SpecStore == Init /\ [][NextStore]_vars

\* the store's interface with a durability backend that is down
NextFailing == StoreCalls(SaveFails)

SpecFailing == Init /\ [][NextFailing]_vars

\* a caller that keeps what getReminders() returned, and the store's updates
NextSnapshot ==
  \/ GetReminders
  \/ \E i \in DOMAIN held : SetReturnedField(i, "priority", "Low")
  \/ \E in \in StoreOdoInputs : UpdateOdometer(in[1], in[2], 4)
  \/ \E id \in StoreReminderIds : StoreUpdateReminder(id, ReminderPatch, 4)
  \/ \E id \in StoreWorkOrderIds : StoreUpdateWorkOrder(id, WorkOrderPatch, 4)

SpecSnapshot == Init /\ [][NextSnapshot]_vars

\* polling cycles of both copies, with fetches that fail
NextPoll ==
  \/ \E rd \in PollReadings, fl \in PollFailures : PollOdometers(rd, fl, 4)
  \/ \E rd \in PollReadings, fl \in PollFailures : PollOdometers2(rd, fl, 4)
  \/ DismissNotif

SpecPoll == InitPoll /\ [][NextPoll]_vars

\* work orders created, moved on, completed and deleted
NextStats ==
  \/ _woCounter < WO_COUNTER_DEFAULT + MaxWO /\ AddWorkOrder(ManualWO, 4)
  \/ \E id \in IdsOf(_workOrders) : UpdateWO(id, 4)
  \/ \E id \in IdsOf(_workOrders), c \in CostFields : SaveAndCompleteWO(id, c, 4)
  \/ count.deletes < MaxWODeletes /\ \E id \in IdsOf(_workOrders) : DeleteWorkOrder(id, 4)

SpecStats == Init /\ [][NextStats]_vars

\* the reminder's life: form, odometer, trigger check, deletion
NextStatus ==
  \/ _rCounter < R_COUNTER_DEFAULT + MaxAdds /\ SaveNewReminder(input.pick, input.form, 4)
  \/ count.edits < MaxEdits /\ \E id \in StatusEdits : SaveEditedReminder(id, input.pick, input.form, 4)
  \/ \E x \in StatusOdometers : UpdateOdometer(LifecycleInput.pick[1], x, 4)
  \/ /\ streak.calls < MaxStatusChecks
     /\ Len(shown) < MaxStatusChecks
     /\ CheckForTriggeredReminders(4)
  \/ count.deletes < MaxDeletes /\ \E id \in StatusDeletes : DeleteReminder(id, 4)

SpecStatus == InitStatus /\ [][NextStatus]_vars

\* the store on a localStorage that holds nothing and takes no write, with
\* init() called again (initialize after the DOMContentLoaded fallback)
NextFirstRun ==
  \/ \E in \in StoreOdoInputs : UpdateOdometer(in[1], in[2], SaveFails)
  \/ _rCounter < R_COUNTER_DEFAULT + MaxAdds /\ SaveNewReminder(input.pick, input.form, SaveFails)
  \/ _woCounter < WO_COUNTER_DEFAULT + MaxWO /\ AddWorkOrder(ManualWO, SaveFails)
  \/ \E readable \in BOOLEAN : StoreInit(readable)

SpecFirstRun == Init /\ [][NextFirstRun]_vars

\* the notified flag over readings, trigger checks, polling cycles, an edit and
\* init() called again, on a localStorage that holds nothing and takes no write
NextNotified ==
  \/ \E in \in OdoInputs : UpdateOdometer(in[1], in[2], SaveFails)
  \/ /\ streak.calls < MaxChecks
     /\ Len(shown) < MaxNotified \/ ~raises(World)
     /\ CheckForTriggeredReminders(SaveFails)
  \/ /\ Len(shown) < MaxNotified
     /\ \E rd \in PollReadings : PollOdometers(rd, {}, SaveFails)
  \/ /\ count.edits < MaxEdits
     /\ \E id \in NotifiedEdits : SaveEditedReminder(id, input.pick, NotifiedForm, SaveFails)
  \/ StoreInit(TRUE)

SpecNotified == Init /\ [][NextNotified]_vars

\* the work-order dialog: a new work order, and the buttons of an existing one
NextDialog ==
  \/ _woCounter < WO_COUNTER_DEFAULT + MaxWO /\ AddWorkOrder(ManualWO, 4)
  \/ \E id \in IdsOf(_workOrders) : UpdateWO(id, 4)
  \/ \E id \in IdsOf(_workOrders), c \in CostFields : SaveAndCompleteWO(id, c, 4)
  \/ \E id \in IdsOf(_workOrders), c \in CostFields : SaveWOEdits(id, c, 4)

SpecDialog == Init /\ [][NextDialog]_vars

\* the odometers the telemetry server returns to the fetches of the n-th polling
\* cycle: a vehicle's odometer grows from one cycle to the next
CycleReadings(n) ==
  [v \in Range(LoadedVehicles) |-> <<(IF v = "TRK-041" THEN 84312 ELSE 44850) + 100 * n>>]

\* _pollOdometers() up to await Promise.all, as call number n: the cycle that is
\* in flight after it, none when the call returns early
startCycle(s, devices, n, first) ==
  IF ~pollChecks(s, devices) THEN {}
  ELSE {[n |-> n, devices |-> trackedDevices(s, devices), readings |-> CycleReadings(n),
         first |-> first]}

\* GeotabIntegration.init(api) up to its first await; api = FALSE: null, demo mode
GeotabInit(api) ==
  /\ pc = "start"
  /\ pc' = IF api THEN "loadVehicles" ELSE "demo"
  /\ CommitStore(World, Last("geotabInit", <<>>, <<>>, IF api THEN 1 ELSE 0, ""))
  /\ UNCHANGED <<_vehicles, _pollTimer, armed, inflight, cycles, shown, streak, count>>

\* the Device call settles. ok: _loadVehicles() ends and init() calls the first
\* _pollOdometers(), which runs up to its await (when it returns early, init() goes
\* on to setInterval); ~ok: the call rejects and init() ends in its catch branch
VehiclesLoaded(ok) ==
  /\ pc = "loadVehicles"
  /\ IF ok
     THEN LET c == startCycle(World, LoadedVehicles, cycles.started + 1, TRUE)
          IN  /\ _vehicles' = LoadedVehicles
              /\ inflight' = inflight \cup c
              /\ cycles' = [cycles EXCEPT !.started = @ + 1]
              /\ pc' = IF c = {} THEN "done" ELSE "firstPoll"
              /\ _pollTimer' = IF c = {} THEN <<1>> ELSE _pollTimer
              /\ armed' = IF c = {} THEN armed \cup {1} ELSE armed
     ELSE /\ pc' = "failed"
          /\ UNCHANGED <<_vehicles, inflight, cycles, _pollTimer, armed>>
  /\ CommitStore(World, Last("loadVehicles", <<>>, <<>>, IF ok THEN 1 ELSE 0, ""))
  /\ UNCHANGED <<shown, streak, count>>

\* an armed interval timer calls _pollOdometers(), whether or not an earlier cycle
\* still awaits its fetches
TimerFires ==
  /\ armed # {}
  /\ inflight' = inflight \cup startCycle(World, _vehicles, cycles.started + 1, FALSE)
  /\ cycles' = [cycles EXCEPT !.started = @ + 1]
  /\ CommitStore(World, Last("pollStart", <<>>, <<>>, cycles.started + 1, ""))
  /\ UNCHANGED <<_vehicles, _pollTimer, armed, pc, shown, streak, count>>

\* the fetches of the cycle c have settled: _pollOdometers() after await Promise.all;
\* when c is the first poll, init() goes on to setInterval
CycleDone(c, f) ==
  LET a == applyReadings(World, c.devices, c.readings, f)
      written == {v \in Range(c.devices) : c.readings[v] # <<>> /\ updateOdometerChanged(World, v)}
  IN  /\ c \in inflight
      /\ inflight' = inflight \ {c}
      /\ CommitStore(_checkForTriggeredReminders(a, f),
                     Last("pollDone", IF raises(a) THEN triggered(a)[1].id ELSE <<>>, <<>>, c.n, ""))
      /\ shown' = IF raises(a) THEN Append(shown, triggered(a)[1].id) ELSE shown
      /\ streak' = NoStreak
      /\ cycles' = [cycles EXCEPT !.applied =
                      [v \in DOMAIN cycles.applied |->
                         IF v \in written THEN c.n ELSE cycles.applied[v]]]
      /\ pc' = IF c.first THEN "done" ELSE pc
      /\ _pollTimer' = IF c.first THEN <<1>> ELSE _pollTimer
      /\ armed' = IF c.first THEN armed \cup {1} ELSE armed
      /\ UNCHANGED <<_vehicles, count>>

\* GeotabIntegration.destroy(), once init() has been called
Destroy ==
  /\ pc # "start"
  /\ armed' = IF _pollTimer # <<>> THEN armed \ {_pollTimer[1]} ELSE armed
  /\ cycles' = [cycles EXCEPT !.destroyed = TRUE]
  /\ CommitStore(World, Last("destroy", <<>>, <<>>, 0, ""))
  /\ UNCHANGED <<_vehicles, _pollTimer, pc, inflight, shown, streak, count>>

\* the add-in's start, the interval timer, the polling cycles in flight and destroy()
NextCycles ==
  \/ \E api \in BOOLEAN : GeotabInit(api)
  \/ \E ok \in BOOLEAN : VehiclesLoaded(ok)
  \/ cycles.started < MaxCycles /\ TimerFires
  \/ \E c \in inflight : CycleDone(c, SaveWorks)
  \/ Destroy
  \/ DismissNotif

SpecCycles == InitCycles /\ [][NextCycles]_vars

-----------------------------------------------------------------------------
(* Properties                                                              *)

Minimum(a, b) == IF a <= b THEN a ELSE b

\* the priority ranks, as the claims state them
Rank(p) == CASE p = "High" -> 0 [] p = "Medium" -> 1 [] p = "Low" -> 2

\* the reminders that are overdue and not notified, by position
Candidates(seq) == {i \in DOMAIN seq : seq[i].status = "overdue" /\ seq[i].notified = FALSE}

\* no two reminders of the collection share an id
UniqueIds(seq) == \A i, j \in DOMAIN seq : seq[i].id = seq[j].id => i = j

\* a reminder's field values (its identity left out)
Fields(r) == [r EXCEPT !.ref = 0]

C2_NotifiedOnce ==
  [][ (last'.op \in {"checkTriggered", "pollOdometers"} /\ last'.k = 1) =>
        /\ _pendingNotifReminder' # <<>>
        /\ _pendingNotifReminder'[1].id \notin Range(shown)
        /\ \A i \in DOMAIN _reminders :
             _reminders[i].id = _pendingNotifReminder'[1].id => ~_reminders[i].notified ]_vars

\* a polling cycle ran its trigger check over a reminder that is overdue and
\* was notified by an earlier check, and raised nothing
C2_Witness ==
  /\ last.op = "pollOdometers"
  /\ last.k = 0
  /\ \E i \in DOMAIN _reminders :
       /\ _reminders[i].status = "overdue"
       /\ _reminders[i].notified
       /\ _reminders[i].id \in Range(shown)

\* C3: the reminder a trigger check hands to the banner has the minimum rank
\* among the overdue, unnotified reminders and is the first of that rank in
\* collection order; the check sets notified of that reminder and changes
\* nothing else in the collection.
C3_MinimumPriorityFirst ==
  [][ (last'.op = "checkTriggered" /\ last'.k = 1) =>
        /\ _pendingNotifReminder' # <<>>
        /\ \E i \in Candidates(_reminders) :
             /\ Fields(_pendingNotifReminder'[1]) = Fields(_reminders[i])
             /\ \A j \in Candidates(_reminders) :
                  /\ Rank(_reminders[j].priority) >= Rank(_reminders[i].priority)
                  /\ Rank(_reminders[j].priority) = Rank(_reminders[i].priority) => j >= i
             /\ Len(_reminders') = Len(_reminders)
             /\ \A j \in DOMAIN _reminders :
                  Fields(_reminders'[j]) =
                    IF j = i THEN [Fields(_reminders[j]) EXCEPT !.notified = TRUE]
                    ELSE Fields(_reminders[j]) ]_vars

\* the check passed over an overdue, unnotified Low reminder at the front of
\* the collection and chose a High one behind it
C3_Witness ==
  /\ last.op = "checkTriggered"
  /\ last.k = 1
  /\ \E i, j \in DOMAIN _reminders :
       /\ i < j
       /\ _reminders[i].status = "overdue"
       /\ ~_reminders[i].notified
       /\ _reminders[i].priority = "Low"
       /\ _reminders[j].id = last.id
       /\ _reminders[j].priority = "High"
       /\ _reminders[j].notified

\* the status rule, as the claims state it
StatusRule(current, target, warn) ==
  IF current >= target THEN "overdue"
  ELSE IF 0 <= target - current /\ target - current <= warn /\ current < target THEN "due-soon"
  ELSE "scheduled"

\* the vehicles of a reminder, as the claims state them
VehicleList(r) == IF r.vehicles # <<>> THEN r.vehicles ELSE <<r.vehicle>>

\* C4: every non-Date reminder that updateOdometer(v, x) wrote to, and every
\* non-Date reminder saved through the form, has the status of the rule:
\* overdue when current >= target, due-soon when 0 <= target - current <= warn
\* and current < target, scheduled otherwise.
C4_StatusRule ==
  /\ last.op = "updateOdometer" =>
       \A i \in DOMAIN _reminders :
         (_reminders[i].vehicle = last.v /\ _reminders[i].type # "Date") =>
            _reminders[i].status = StatusRule(last.k, _reminders[i].target, _reminders[i].warn)
  /\ last.op = "saveReminder" =>
       \A i \in DOMAIN _reminders :
         (_reminders[i].id = last.id /\ _reminders[i].type # "Date") =>
            _reminders[i].status =
              StatusRule(_reminders[i].current, _reminders[i].target, _reminders[i].warn)

\* an odometer update left a reminder exactly warn below its target: due-soon
C4_Witness ==
  /\ last.op = "updateOdometer"
  /\ \E i \in DOMAIN _reminders :
       /\ _reminders[i].vehicle = last.v
       /\ _reminders[i].type # "Date"
       /\ _reminders[i].current = last.k
       /\ _reminders[i].target - _reminders[i].current = _reminders[i].warn
       /\ _reminders[i].warn > 0
       /\ _reminders[i].status = "due-soon"

\* C5 as stated: after updateOdometer(vehicleId, x) every non-Date reminder
\* whose vehicles contain vehicleId has current = x and the status of the rule.
C5_EveryVehicle ==
  last.op = "updateOdometer" =>
    \A i \in DOMAIN _reminders :
      (last.v \in Range(VehicleList(_reminders[i])) /\ _reminders[i].type # "Date") =>
         /\ _reminders[i].current = last.k
         /\ _reminders[i].status = StatusRule(last.k, _reminders[i].target, _reminders[i].warn)

\* C6: updateOdometer changes no notified flag, and a second call with the
\* same vehicle and reading right after the first leaves the store as the
\* first call left it.
C6_Idempotent ==
  [][ last'.op = "updateOdometer" =>
        /\ Len(_reminders') = Len(_reminders)
        /\ \A i \in DOMAIN _reminders : _reminders'[i].notified = _reminders[i].notified
        /\ last'.rep = 1 =>
             /\ _reminders' = _reminders
             /\ _workOrders' = _workOrders
             /\ _woCounter' = _woCounter
             /\ _rCounter' = _rCounter ]_vars

\* the same reading applied twice to a vehicle with a notified reminder that
\* the reading took out of overdue
C6_Witness ==
  /\ last.op = "updateOdometer"
  /\ last.rep = 1
  /\ \E i \in DOMAIN _reminders :
       /\ _reminders[i].vehicle = last.v
       /\ _reminders[i].current = last.k
       /\ _reminders[i].notified
       /\ _reminders[i].status = "due-soon"

\* C7: acceptAndCreateWO on a pending reminder with k vehicles puts k work
\* orders in front of the old ones, one per vehicle, each Open, each with the
\* reminder's id as reminderId and a fresh id of its own; the WO counter grows
\* by k and the old work orders are unchanged.
C7_FanOut ==
  [][ (last'.op = "acceptAndCreateWO" /\ _pendingNotifReminder # <<>>) =>
        LET r  == _pendingNotifReminder[1]
            vs == VehicleList(r)
            k  == Len(vs)
        IN  /\ Len(_workOrders') = Len(_workOrders) + k
            /\ SubSeq(_workOrders', k + 1, Len(_workOrders')) = _workOrders
            /\ _woCounter' = _woCounter + k
            /\ \A i \in 1..k :
                 /\ _workOrders'[i].status = "Open"
                 /\ _workOrders'[i].reminderId = r.id
                 /\ _workOrders'[i].id \notin (IdsOf(_workOrders) \cup issuedWO)
                 /\ \A j \in 1..k : _workOrders'[j].id = _workOrders'[i].id => j = i
            /\ \A n \in 1..k :
                 Cardinality({i \in 1..k : _workOrders'[i].vehicle = vs[n]}) = 1 ]_vars

\* a reminder with two vehicles was accepted: two work orders
C7_Witness ==
  /\ last.op = "acceptAndCreateWO"
  /\ last.k = 2
  /\ Len(_workOrders) >= Len(DEFAULT_WORK_ORDERS) + 2
  /\ _workOrders[1].reminderId = last.id
  /\ _workOrders[2].reminderId = last.id
  /\ _workOrders[1].vehicle # _workOrders[2].vehicle

\* C8 as stated: with the banner shown for a reminder, Accept followed by
\* confirm creates at least one work order with that reminder's id.
C8_AcceptThenConfirm ==
  [][ (last.op = "openAcceptModal" /\ last'.op = "acceptAndCreateWO") =>
        \E i \in DOMAIN _workOrders' :
          /\ _workOrders'[i].reminderId = last.id
          /\ _workOrders'[i].id \notin IdsOf(_workOrders) ]_vars

\* C9: the reminder counter never decreases, and the id of a reminder that
\* addReminder creates was never the id of a reminder of the store before.
C9_FreshReminderIds ==
  [][ /\ _rCounter' >= _rCounter
      /\ (last'.op = "saveReminder" /\ last'.k = 0) =>
            /\ Len(_reminders') = Len(_reminders) + 1
            /\ _reminders'[1].id \notin everR
            /\ \A i \in DOMAIN _reminders : _reminders'[i + 1] = _reminders[i] ]_vars

\* a reminder was created after two reminders had been deleted
C9_Witness ==
  /\ last.op = "saveReminder"
  /\ last.k = 0
  /\ count.deletes = 2
  /\ Len(_reminders) < Len(SEED_REMINDERS)
  /\ _reminders[1].id = last.id

\* C10 as stated: over addWorkOrder, deleteWorkOrder, failing saves and init()
\* reloads, every addWorkOrder increases the counter and issues an id that was
\* not issued before.
C10_FreshWorkOrderIds ==
  [][ last'.op = "addWorkOrder" =>
        /\ _woCounter' > _woCounter
        /\ _workOrders'[1].id \notin issuedWO ]_vars

\* the in-memory store and the persisted slots are as they were
StoreUntouched ==
  /\ _reminders' = _reminders
  /\ _workOrders' = _workOrders
  /\ _woCounter' = _woCounter
  /\ _rCounter' = _rCounter
  /\ localStorage' = localStorage

\* C11: updateReminder and updateWorkOrder with an id that is not in the store
\* return null, deleteReminder and deleteWorkOrder return false, and the call
\* leaves both collections, both counters and the persisted slots unchanged.
C11_UnknownIdNoOp ==
  [][ /\ (last'.op \in {"updateReminder", "deleteReminder"} /\ last'.id \notin IdsOf(_reminders)) =>
           /\ last'.ret = IF last'.op = "updateReminder" THEN <<>> ELSE <<FALSE>>
           /\ StoreUntouched
      /\ (last'.op \in {"updateWorkOrder", "deleteWorkOrder"} /\ last'.id \notin IdsOf(_workOrders)) =>
           /\ last'.ret = IF last'.op = "updateWorkOrder" THEN <<>> ELSE <<FALSE>>
           /\ StoreUntouched ]_vars

\* deleteWorkOrder missed in a store with persisted state and a changed collection
C11_Witness ==
  /\ last.op = "deleteWorkOrder"
  /\ last.id \notin IdsOf(_workOrders)
  /\ last.ret = <<FALSE>>
  /\ localStorage.WORK_ORDERS = <<_workOrders>>
  /\ Len(_workOrders) > Len(DEFAULT_WORK_ORDERS)

\* C12: deleteReminder(id) leaves the work-order collection and the WO counter
\* as they were, so every work order made from the deleted reminder is still
\* there with all its fields.
C12_WorkOrdersKept ==
  [][ last'.op = "deleteReminder" =>
        /\ _workOrders' = _workOrders
        /\ _woCounter' = _woCounter ]_vars

\* a reminder was deleted that a work order of the store was made from
C12_Witness ==
  /\ last.op = "deleteReminder"
  /\ last.ret = <<TRUE>>
  /\ last.id \notin IdsOf(_reminders)
  /\ \E i \in DOMAIN _workOrders : _workOrders[i].reminderId = last.id

\* C13 as stated, for getReminders(): the field values of a returned array's
\* entities are not changed by a later updateOdometer, updateReminder or
\* updateWorkOrder, and a write to a field of a returned entity does not
\* change the store.
C13_Snapshot ==
  [][ /\ last'.op \in {"updateOdometer", "updateReminder", "updateWorkOrder"} =>
           StripRef(held') = StripRef(held)
      /\ last'.op = "setReturnedField" =>
           StripRef(_reminders') = StripRef(_reminders) ]_vars

\* the first position of id in a collection
FirstIndex(seq, id) == CHOOSE i \in DOMAIN seq : seq[i].id = id /\ \A j \in 1..(i - 1) : seq[j].id # id

\* C14: whether or not the save goes through, add, update and delete of
\* reminders and work orders and updateOdometer have their full effect on the
\* collections and counters in memory and return their normal result, in
\* every state, also after earlier saves have failed.
C14_SaveFailureNonFatal ==
  [][ /\ (last'.op = "saveReminder" /\ last'.k = 0) =>
           /\ _rCounter' = _rCounter + 1
           /\ Len(_reminders') = Len(_reminders) + 1
           /\ _reminders'[1].id = ReminderId(_rCounter)
           /\ \A i \in DOMAIN _reminders : _reminders'[i + 1] = _reminders[i]
      /\ last'.op = "addWorkOrder" =>
           /\ _woCounter' = _woCounter + 1
           /\ _workOrders' = <<[LinkedWO EXCEPT !.id = WorkOrderId(_woCounter + 1)]>> \o _workOrders
      /\ (last'.op = "updateReminder" /\ last'.id \in IdsOf(_reminders)) =>
           LET idx == FirstIndex(_reminders, last'.id)
           IN  /\ Len(_reminders') = Len(_reminders)
               /\ \A i \in DOMAIN _reminders :
                    Fields(_reminders'[i]) =
                      IF i = idx THEN [Fields(_reminders[i]) EXCEPT !.notified = TRUE]
                      ELSE Fields(_reminders[i])
               /\ last'.ret = <<_reminders'[idx]>>
      /\ (last'.op = "deleteReminder" /\ last'.id \in IdsOf(_reminders)) =>
           /\ _reminders' = Without(_reminders, FirstIndex(_reminders, last'.id))
           /\ last'.ret = <<TRUE>>
      /\ (last'.op = "updateWorkOrder" /\ last'.id \in IdsOf(_workOrders)) =>
           LET idx == FirstIndex(_workOrders, last'.id)
           IN  /\ _workOrders' = [_workOrders EXCEPT ![idx].status = "In Progress"]
               /\ last'.ret = <<_workOrders'[idx]>>
      /\ (last'.op = "deleteWorkOrder" /\ last'.id \in IdsOf(_workOrders)) =>
           /\ _workOrders' = Without(_workOrders, FirstIndex(_workOrders, last'.id))
           /\ last'.ret = <<TRUE>>
      /\ last'.op = "updateOdometer" =>
           /\ Len(_reminders') = Len(_reminders)
           /\ \A i \in DOMAIN _reminders :
                IF _reminders[i].vehicle = last'.v /\ _reminders[i].type # "Date"
                THEN /\ _reminders'[i].current = last'.k
                     /\ _reminders'[i].status =
                          StatusRule(last'.k, _reminders[i].target, _reminders[i].warn)
                ELSE _reminders'[i] = _reminders[i]
           /\ last'.ret = <<\E i \in DOMAIN _reminders :
                             _reminders[i].vehicle = last'.v /\ _reminders[i].type # "Date">> ]_vars

\* no save has ever gone through, two work orders were added and then a work
\* order was updated, again with a failing save
C14_Witness ==
  /\ localStorage = [REMINDERS |-> <<>>, WORK_ORDERS |-> <<>>, WO_COUNTER |-> <<>>, R_COUNTER |-> <<>>]
  /\ _woCounter = WO_COUNTER_DEFAULT + 2
  /\ Len(_workOrders) = Len(DEFAULT_WORK_ORDERS) + 2
  /\ last.op = "updateWorkOrder"
  /\ last.k = 0
  /\ last.ret # <<>>
  /\ last.ret[1].status = "In Progress"

\* the loaded devices that some reminder of the store is for
Tracked == {v \in Range(_vehicles) : \E i \in DOMAIN _reminders : _reminders[i].vehicle = v}

\* what a trigger check leaves behind: a notification, or no reminder that is
\* overdue and not notified
CheckRan ==
  \/ last'.k = 1
  \/ \A i \in DOMAIN _reminders' :
       ~(_reminders'[i].status = "overdue" /\ _reminders'[i].notified = FALSE)

\* C15 as stated: in a polling cycle in which the fetch of a tracked vehicle
\* fails or brings no reading, every tracked vehicle with a reading has it
\* applied to its non-Date reminders, every other reminder keeps its current
\* and status, and the trigger check runs.
C15_FailedReadingSkipped ==
  [][ ( /\ last'.op = "pollOdometers"
        /\ \E v \in Tracked : v \in last'.fetch[1].failed \/ last'.fetch[1].readings[v] = <<>> ) =>
        /\ Len(_reminders') = Len(_reminders)
        /\ \A i \in DOMAIN _reminders :
             LET r == _reminders[i]
             IN  IF /\ r.vehicle \in Tracked
                    /\ r.vehicle \notin last'.fetch[1].failed
                    /\ last'.fetch[1].readings[r.vehicle] # <<>>
                    /\ r.type # "Date"
                 THEN /\ _reminders'[i].current = last'.fetch[1].readings[r.vehicle][1]
                      /\ _reminders'[i].status =
                           StatusRule(_reminders'[i].current, r.target, r.warn)
                 ELSE /\ _reminders'[i].current = r.current
                      /\ _reminders'[i].status = r.status
        /\ CheckRan ]_vars

\* C16 as stated: every polling cycle (devices are loaded, no fetch rejects)
\* runs the trigger check, also when no reading is applied and when no loaded
\* device has a reminder.
C16_CheckEveryCycle ==
  [][ ( /\ last'.op = "pollOdometers"
        /\ _vehicles # <<>>
        /\ last'.fetch[1].failed = {} ) => CheckRan ]_vars

\* the calendar month a work order's date lies in
DateYear(d) == parseInt(SubSeq(d, 1, 4))
DateMonth(d) == parseInt(SubSeq(d, 6, 7))
InMonth(w, now) == w.date # <<>> /\ DateYear(w.date) = now[1] /\ DateMonth(w.date) = now[2]

RECURSIVE CostSum(_, _)
\* the costs of the work orders at the positions idxs, null counted as 0
CostSum(seq, idxs) ==
  IF idxs = {} THEN 0
  ELSE LET i == CHOOSE j \in idxs : TRUE
       IN  (IF seq[i].cost = <<>> THEN 0 ELSE seq[i].cost[1]) + CostSum(seq, idxs \ {i})

\* C17: at any moment, getWOStats gives completed = the number of Completed
\* work orders whose date lies in the current calendar month and spend = the
\* sum of the costs (null as 0) of all work orders whose date lies in that
\* month; a work order dated in another month counts for neither, whatever
\* its completion date.
C17_MonthToDate ==
  \A now \in StatsClocks :
    LET mtd == {i \in DOMAIN _workOrders : InMonth(_workOrders[i], now)}
    IN  /\ getWOStats(World, now).completed =
             Cardinality({i \in mtd : _workOrders[i].status = "Completed"})
        /\ getWOStats(World, now).spend = CostSum(_workOrders, mtd)

\* a work order of last month was just completed today at a cost, next to a
\* completed work order of this month: one completed, and only its cost
C17_Witness ==
  /\ last.op = "saveAndCompleteWO"
  /\ \E i \in DOMAIN _workOrders :
       /\ _workOrders[i].id = last.id
       /\ DateMonth(_workOrders[i].date) = TODAY[2] - 1
       /\ _workOrders[i].completionDate = isoDate(TODAY)
       /\ _workOrders[i].cost = <<150>>
  /\ getWOStats(World, TODAY).completed = 1
  /\ getWOStats(World, TODAY).spend = 150

\* C18 as stated: updateOdometer returns true exactly when the current or the
\* status of at least one reminder differs after the call.
C18_ReturnsChanged ==
  [][ last'.op = "updateOdometer" =>
        (last'.ret = <<TRUE>>) =
          (\E i \in DOMAIN _reminders :
             \/ _reminders'[i].current # _reminders[i].current
             \/ _reminders'[i].status # _reminders[i].status) ]_vars

\* C19: in every state reached from the seed data through the reminder form
\* (create and edit), updateOdometer, the trigger check and deleteReminder,
\* every reminder that is not of type Date has the status the rule gives for
\* its own current, target and warn.
C19_StatusConsistent ==
  \A i \in DOMAIN _reminders :
    _reminders[i].type # "Date" =>
      _reminders[i].status =
        StatusRule(_reminders[i].current, _reminders[i].target, _reminders[i].warn)

\* after an edit and a deletion, a trigger check raised a notification while a
\* reminder from the form stood one below its target, due-soon
C19_Witness ==
  /\ count.edits = 1
  /\ count.deletes = 1
  /\ last.op = "checkTriggered"
  /\ last.k = 1
  /\ \E i \in DOMAIN _reminders :
       /\ _reminders[i].target = MaxVal
       /\ _reminders[i].current = MaxVal - 1
       /\ _reminders[i].warn = 1
       /\ _reminders[i].status = "due-soon"

\* the last step was a store call that changed the store
Mutated ==
  \/ last.op \in {"saveReminder", "addWorkOrder"}
  \/ last.op \in {"updateReminder", "updateWorkOrder"} /\ last.ret # <<>>
  \/ last.op \in {"deleteReminder", "deleteWorkOrder", "updateOdometer"} /\ last.ret = <<TRUE>>

\* C20: with a working durability backend, after every store call that
\* changed the store the four slots hold the collections and counters of the
\* store, and init() run in that state restores the same reminders and work
\* orders in the same order and the same two counters.
C20_PersistRoundTrip ==
  Mutated =>
    /\ localStorage.REMINDERS = <<[i \in DOMAIN _reminders |-> Fields(_reminders[i])]>>
    /\ localStorage.WORK_ORDERS = <<_workOrders>>
    /\ localStorage.WO_COUNTER = <<String(_woCounter)>>
    /\ localStorage.R_COUNTER = <<String(_rCounter)>>
    /\ LET t == init(World, TRUE)
       IN  /\ Len(t.r) = Len(_reminders)
           /\ \A i \in DOMAIN _reminders : Fields(t.r[i]) = Fields(_reminders[i])
           /\ t.w = _workOrders
           /\ t.wc = _woCounter
           /\ t.rc = _rCounter

\* an odometer update was saved after a reminder and two work orders had been
\* added: the slots hold the new reading and both counters
C20_Witness ==
  /\ last.op = "updateOdometer"
  /\ last.ret = <<TRUE>>
  /\ _rCounter = R_COUNTER_DEFAULT + 1
  /\ _woCounter = WO_COUNTER_DEFAULT + 2
  /\ localStorage.WO_COUNTER = <<<<"2", "0", "2", "6">>>>
  /\ localStorage.R_COUNTER = <<<<"8">>>>
  /\ \E i \in DOMAIN localStorage.REMINDERS[1] : localStorage.REMINDERS[1][i].current = last.k
  /\ \E i \in DOMAIN _reminders : _reminders[i].current = last.k /\ last.k # 84312

\* no slot of localStorage holds a value
NothingPersisted ==
  localStorage = [REMINDERS |-> <<>>, WORK_ORDERS |-> <<>>, WO_COUNTER |-> <<>>, R_COUNTER |-> <<>>]

\* C21 as stated: init() run while the persisted state is absent or cannot be
\* read, at any point of the store's life, leaves the seed reminders, the seed
\* work orders, the reminder counter 7 and the WO counter 2024.
C21_FirstRun ==
  (last.op = "init" /\ NothingPersisted) =>
    /\ StripRef(_reminders) = StripRef(SEED_REMINDERS)
    /\ _workOrders = DEFAULT_WORK_ORDERS
    /\ _rCounter = R_COUNTER_DEFAULT
    /\ _woCounter = WO_COUNTER_DEFAULT

\* a reminder belongs to every vehicle of its list
Belongs(r, v) == v \in Range(VehicleList(r))

\* C22: for a call updateOdometer(v1, x) and any reading y of another vehicle
\* v2, the store after updateOdometer(v1, x) then updateOdometer(v2, y) is the
\* store after the two calls in the opposite order, and the call changes no
\* reminder that does not belong to v1.
C22_Commute ==
  [][ last'.op = "updateOdometer" =>
        /\ \A in \in OtherReadings :
             in[1] # last'.v =>
               updateOdometer(World', in[1], in[2], 4) =
                 updateOdometer(updateOdometer(World, in[1], in[2], 4), last'.v, last'.k, 4)
        /\ Len(_reminders') = Len(_reminders)
        /\ \A i \in DOMAIN _reminders :
             ~Belongs(_reminders[i], last'.v) => _reminders'[i] = _reminders[i] ]_vars

\* a reading for the first vehicle of a two-vehicle reminder was applied, and
\* the reading of its second vehicle and one of another tracked vehicle are at hand
C22_Witness ==
  /\ last.op = "updateOdometer"
  /\ last.ret = <<TRUE>>
  /\ \E i \in DOMAIN _reminders :
       /\ Len(_reminders[i].vehicles) = 2
       /\ _reminders[i].vehicles[1] = last.v
       /\ _reminders[i].current = last.k
       /\ \E in \in OtherReadings : in[1] = _reminders[i].vehicles[2]
  /\ \E in \in OtherReadings :
       in[1] # last.v /\ updateOdometer(World, in[1], in[2], 4).r # _reminders

\* C24: updateOdometer leaves every Date reminder as it is, a reminder that the
\* form saves with type Date has status scheduled, and the reminder a trigger
\* check selects is never of type Date: no Date reminder is ever overdue.
C24_DateUntouched ==
  [][ /\ last'.op = "updateOdometer" =>
           /\ Len(_reminders') = Len(_reminders)
           /\ \A i \in DOMAIN _reminders :
                _reminders[i].type = "Date" => _reminders'[i] = _reminders[i]
      /\ last'.op = "saveReminder" =>
           \A i \in DOMAIN _reminders' :
             (_reminders'[i].id = last'.id /\ _reminders'[i].type = "Date") =>
                _reminders'[i].status = "scheduled"
      /\ (last'.op = "checkTriggered" /\ last'.k = 1) =>
           _pendingNotifReminder'[1].type # "Date"
      /\ \A i \in DOMAIN _reminders' :
           _reminders'[i].type = "Date" => _reminders'[i].status # "overdue" ]_vars

\* a trigger check selected nothing although the form's Date reminder belongs
\* to a vehicle whose reading, applied to its other reminders, is past the Date
\* reminder's target
C24_Witness ==
  /\ last.op = "checkTriggered"
  /\ last.k = 0
  /\ \E i, j \in DOMAIN _reminders :
       /\ _reminders[i].type = "Date"
       /\ _reminders[i].id = ReminderId(R_COUNTER_DEFAULT)
       /\ ~_reminders[i].notified
       /\ _reminders[j].vehicle = _reminders[i].vehicle
       /\ _reminders[j].type # "Date"
       /\ _reminders[j].current = MaxVal
       /\ _reminders[j].current >= _reminders[i].target
       /\ _reminders[j].current # _reminders[i].current

\* the reminders that are notified before the step are notified after it
NotifiedStays ==
  \A i \in DOMAIN _reminders, j \in DOMAIN _reminders' :
    (_reminders'[j].id = _reminders[i].id /\ _reminders[i].notified) => _reminders'[j].notified

\* C25 as stated: no operation of the store, the polling loop, the trigger
\* check or the edit form takes a notified flag from true to false, and no
\* reminder is notified a second time.
C25_NeverReset ==
  [][ /\ NotifiedStays
      /\ (last'.op \in {"checkTriggered", "pollOdometers"} /\ last'.k = 1) =>
           last'.id \notin Range(shown) ]_vars

\* C25 amended: no operation other than init() takes a notified flag from true
\* to false, and the reminder a trigger check notifies was not notified before
\* the check; so a notified reminder that left overdue and became overdue again
\* is not notified again unless init() has reloaded it without the flag.
C25_NotifiedKept ==
  [][ /\ last'.op # "init" => NotifiedStays
      /\ (last'.op \in {"checkTriggered", "pollOdometers"} /\ last'.k = 1) =>
           \A i \in DOMAIN _reminders :
             _reminders[i].id = last'.id => ~_reminders[i].notified ]_vars

\* R006 was notified with High priority, an edit took it out of overdue, a
\* reading brought it back, and the trigger check raised nothing
C25_Witness ==
  /\ last.op = "checkTriggered"
  /\ last.k = 0
  /\ count.edits = 1
  /\ _pendingNotifReminder # <<>>
  /\ _pendingNotifReminder[1].id \in NotifiedEdits
  /\ _pendingNotifReminder[1].priority = "High"
  /\ \E i \in DOMAIN _reminders :
       /\ _reminders[i].id = _pendingNotifReminder[1].id
       /\ _reminders[i].priority = NotifiedForm.priority
       /\ _reminders[i].current = NotifiedForm.target[1]
       /\ _reminders[i].status = "overdue"
       /\ _reminders[i].notified

\* the order of the work-order statuses
StatusRank(st) == CASE st = "Open" -> 0 [] st = "In Progress" -> 1 [] st = "Completed" -> 2

\* C26: through the buttons of the work-order dialog a work order's status
\* never moves back: it is never set to Open, and a Completed work order
\* stays Completed.
C26_ForwardOnly ==
  [][ \A i \in DOMAIN _workOrders, j \in DOMAIN _workOrders' :
        _workOrders'[j].id = _workOrders[i].id =>
          /\ StatusRank(_workOrders'[j].status) >= StatusRank(_workOrders[i].status)
          /\ _workOrders'[j].status = "Open" => _workOrders[i].status = "Open"
          /\ _workOrders[i].status = "Completed" => _workOrders'[j].status = "Completed" ]_vars

\* Save Changes was used on a work order that was created Open and completed
\* through the dialog, and the status stayed, while another work order is In
\* Progress
C26_Witness ==
  /\ last.op = "saveWOEdits"
  /\ \E i \in DOMAIN _workOrders :
       /\ _workOrders[i].id = last.id
       /\ _workOrders[i].id = WorkOrderId(WO_COUNTER_DEFAULT + 1)
       /\ _workOrders[i].status = "Completed"
       /\ _workOrders[i].completionDate = isoDate(TODAY)
       /\ _workOrders[i].cost = <<>>
  /\ \E i \in DOMAIN _workOrders : _workOrders[i].status = "In Progress"

\* a reminder without the two fields updateOdometer writes
OtherFields(r) == [r EXCEPT !.current = 0, !.status = ""]

\* C27: updateOdometer changes the current and status of the reminders it
\* matches and nothing else: every other field of every reminder, the order
\* and number of the reminders, the work orders and both counters stay.
C27_OdometerFrame ==
  [][ last'.op = "updateOdometer" =>
        /\ Len(_reminders') = Len(_reminders)
        /\ \A i \in DOMAIN _reminders :
             /\ OtherFields(_reminders'[i]) = OtherFields(_reminders[i])
             /\ ~(_reminders[i].vehicle = last'.v /\ _reminders[i].type # "Date") =>
                  _reminders'[i] = _reminders[i]
        /\ _workOrders' = _workOrders
        /\ _woCounter' = _woCounter
        /\ _rCounter' = _rCounter ]_vars

\* a reading took a notified reminder from overdue to due-soon in a store with
\* an added reminder and an added work order
C27_Witness ==
  /\ last.op = "updateOdometer"
  /\ last.ret = <<TRUE>>
  /\ \E i \in DOMAIN _reminders :
       /\ _reminders[i].vehicle = last.v
       /\ _reminders[i].current = last.k
       /\ _reminders[i].status = "due-soon"
       /\ _reminders[i].notified
  /\ Len(_reminders) > Len(SEED_REMINDERS)
  /\ Len(_workOrders) > Len(DEFAULT_WORK_ORDERS)

\* C28 as stated: every work order that acceptAndCreateWO creates has as odo
\* the current that the reminder with the accepted id has in the store at that
\* moment, also when readings were applied after the notification.
C28_OdoAtAcceptance ==
  [][ (last'.op = "acceptAndCreateWO" /\ _pendingNotifReminder # <<>>) =>
        \A n \in 1..last'.k, i \in DOMAIN _reminders :
          _reminders[i].id = _pendingNotifReminder[1].id =>
            _workOrders'[n].odo = toLocaleString(_reminders[i].current) ]_vars


\* C29: while a notification is pending, a trigger check (alone or at the end of a polling
\* cycle) leaves the pending notification in place and marks no further reminder notified
C29_PendingKept ==
  [][ (last'.op \in {"checkTriggered", "pollOdometers"} /\ _pendingNotifReminder # <<>>) =>
        /\ _pendingNotifReminder' # <<>>
        /\ _pendingNotifReminder'[1].id = _pendingNotifReminder[1].id
        /\ \A i \in DOMAIN _reminders, j \in DOMAIN _reminders' :
             (_reminders'[j].id = _reminders[i].id /\ _reminders'[j].notified)
               => _reminders[i].notified ]_vars


\* C23: a polling cycle that ends never writes the reading of an earlier cycle over
\* the reading of a later cycle: per vehicle, the cycle of the written reading never
\* goes down
C23_NewerReadingStays ==
  [][ \A v \in DOMAIN cycles.applied : cycles'.applied[v] >= cycles.applied[v] ]_vars

\* C30: once destroy() has been called, no polling cycle is started and no interval
\* timer is armed
C30_StoppedAfterDestroy ==
  [][ cycles.destroyed => (cycles'.started = cycles.started /\ armed' = {}) ]_vars

====
